---- MODULE Spec2Model ----
(***************************************************************************)
(* Model of src/trt_package/detector.py: the YOLOv3 post-processing of     *)
(* PostprocessYOLO (reshape, decode, filter, rescale, per-class greedy     *)
(* NMS, result assembly) and its caller DarknetTRT.__call__.               *)
(*                                                                         *)
(* Numbers.  Floats are modelled by exact rationals with fixed             *)
(* denominators:                                                           *)
(*   - a raw logit is one of five levels -2..2, the points where the       *)
(*     logistic sigmoid is 0 (exp overflow), 1/4, 1/2, 3/4 and 1           *)
(*     (saturation); Sigmoid gives the numerator over SigmoidDen;          *)
(*   - a box coordinate is a numerator over Den, so that 1.0 is Den;       *)
(*   - a score is a numerator over SigmoidDen * SigmoidDen;                *)
(*   - a threshold is a pair <<numerator, denominator>>.                   *)
(***************************************************************************)
EXTENDS Integers, Sequences, FiniteSets, TLC

VARIABLES
    \* DarknetTRT.__call__ / PostprocessYOLO.process
    pc,               \* position in the pipeline
    entry,            \* "none", "call" (DarknetTRT.__call__) or "process" (direct call)
    image,            \* img_raw.shape[:2] = <<height, width>>
    object_threshold, \* self.object_threshold
    outputs,          \* the tensors handed over: [shape |-> <<n,c,h,w>>, data |-> flat NCHW]
    resolution_raw,   \* the second argument of process
    outputs_reshaped, \* process: list of reshaped tensors
    feats,            \* per decoded scale: the result of _process_feats
    filtered,         \* per decoded scale: the result of _filter_boxes
    cand_norm,        \* concatenated boxes before rescaling
    cand,             \* concatenated candidates after rescaling
    class_iter,       \* the classes that "for category in set(categories)" has yet to visit
    nms_out,          \* nms_boxes / nms_categories / nscores, one entry per visited class
    result,           \* the returned triple
    err,              \* the exception raised, "" when none
    \* PostprocessYOLO._nms_boxes
    npc,              \* position in _nms_boxes
    nms_threshold,    \* self.nms_threshold
    nboxes,           \* boxes argument
    nconf,            \* box_confidences argument
    ordered,          \* the active order
    keep              \* the keep list

vars == <<pc, entry, image, object_threshold, outputs, resolution_raw,
          outputs_reshaped, feats, filtered, cand_norm, cand, class_iter,
          nms_out, result, err, npc, nms_threshold, nboxes, nconf, ordered, keep>>

pipeVars == <<pc, entry, image, object_threshold, outputs, resolution_raw,
              outputs_reshaped, feats, filtered, cand_norm, cand, class_iter,
              nms_out, result, err>>

nmsVars == <<npc, nboxes, nconf, ordered, keep>>

(***************************************************************************)
(* Bounds                                                                  *)
(***************************************************************************)
\* number of object categories of the model (80 in the source, line 297)
CategoryNum == 2
\* at most this many cell/anchor entries of an input carry an object
MaxObjects == 2
\* largest group handed to _nms_boxes on its own
MaxBoxes == 3

(***************************************************************************)
(* Helpers                                                                 *)
(***************************************************************************)
Max2(a, b) == IF a >= b THEN a ELSE b
Min2(a, b) == IF a <= b THEN a ELSE b

RECURSIVE SortedSeq(_)
SortedSeq(S) ==
    IF S = {} THEN <<>>
    ELSE LET m == CHOOSE x \in S : \A y \in S : x <= y
         IN  <<m>> \o SortedSeq(S \ {m})

RECURSIVE Concat(_)
Concat(ss) == IF ss = <<>> THEN <<>> ELSE Head(ss) \o Concat(Tail(ss))

Range(s) == {s[i] : i \in DOMAIN s}

(***************************************************************************)
(* Configuration (DarknetTRT.__init__)                                     *)
(***************************************************************************)
\* anchors per cell
Dim3 == 3
\* values per anchor: 4 box parameters, 1 objectness, the categories
Dim4 == 4 + 1 + CategoryNum

Masks == << <<6, 7, 8>>, <<3, 4, 5>>, <<0, 1, 2>> >>

\* nine (width, height) anchors, in pixels of the network input
Anchors == << <<1, 2>>, <<2, 1>>, <<2, 2>>, <<2, 4>>, <<4, 2>>, <<4, 4>>,
              <<8, 8>>, <<16, 16>>, <<8, 16>> >>

\* (height, width) of the network input
InputResolution == <<8, 8>>

\* grid size of each scale
GridSizes == <<1, 1, 1>>

OutputShapes == [s \in 1..3 |-> <<1, Dim3 * Dim4, GridSizes[s], GridSizes[s]>>]

DefaultNmsThreshold == <<7, 10>>

(***************************************************************************)
(* Numbers                                                                 *)
(***************************************************************************)
SigmoidDen == 4
Levels == -2..2
\* 1 / (1 + exp(-v)) at the five levels, as a numerator over SigmoidDen
Sigmoid(v) == v + 2

\* denominator of box coordinates; 1.0 is Den
Den == 8 * InputResolution[1]
ScoreDen == SigmoidDen * SigmoidDen

(***************************************************************************)
(* PostprocessYOLO._nms_boxes                                              *)
(***************************************************************************)
\* areas = width * height
Area(b) == b[3] * b[4]

IntersectionWide(bi, bj) ==
    LET xx1 == Max2(bi[1], bj[1])
        yy1 == Max2(bi[2], bj[2])
        xx2 == Min2(bi[1] + bi[3], bj[1] + bj[3])
        yy2 == Min2(bi[2] + bi[4], bj[2] + bj[4])
        width1  == Max2(0, xx2 - xx1 + 2 * Den)
        height1 == Max2(0, yy2 - yy1 + 2 * Den)
    IN  width1 * height1

\* width1 * height1 of boxes bi and bj (lines 442-453)
Intersection(bi, bj) ==
    LET xx1 == Max2(bi[1], bj[1])
        yy1 == Max2(bi[2], bj[2])
        xx2 == Min2(bi[1] + bi[3], bj[1] + bj[3])
        yy2 == Min2(bi[2] + bi[4], bj[2] + bj[4])
        width1  == Max2(0, xx2 - xx1 + Den)
        height1 == Max2(0, yy2 - yy1 + Den)
    IN  width1 * height1

Union(bi, bj) == Area(bi) + Area(bj) - Intersection(bi, bj)

\* iou <= threshold, with iou = intersection / union in IEEE arithmetic:
\* a negative union gives a quotient <= 0, a zero union gives inf or nan,
\* which compare false
IouLeq(bi, bj, u) ==
    LET inter == Intersection(bi, bj)
        union == Union(bi, bj)
    IN  IF union > 0 THEN inter * u[2] <= u[1] * union
        ELSE union < 0

AscOrders(conf) ==
    LET n == Len(conf)
    IN  {p \in [1..n -> 1..n] :
            /\ \A a, b \in 1..n : a # b => p[a] # p[b]
            /\ \A k \in 1..(n - 1) : conf[p[k]] <= conf[p[k + 1]]}

\* box_confidences.argsort()[::-1]: the index orders of non-increasing
\* confidence; the order among equal confidences is left to the sort
DescOrders(conf) ==
    LET n == Len(conf)
    IN  {p \in [1..n -> 1..n] :
            /\ \A a, b \in 1..n : a # b => p[a] # p[b]
            /\ \A k \in 1..(n - 1) : conf[p[k]] >= conf[p[k + 1]]}

\* np.where(iou <= self.nms_threshold)[0]: 0-based positions in ordered[1:]
Indexes(boxes, ord, u) ==
    SortedSeq({k \in 0..(Len(ord) - 2) :
                  IouLeq(boxes[ord[1]], boxes[ord[k + 2]], u)})

NmsRetainOffByOne(boxes, ord, u) ==
    LET indexes == Indexes(boxes, ord, u)
    IN  [m \in 1..Len(indexes) |-> ord[indexes[m] + 1]]

\* ordered[indexes + 1]
NmsRetain(boxes, ord, u) ==
    LET indexes == Indexes(boxes, ord, u)
    IN  [m \in 1..Len(indexes) |-> ord[(indexes[m] + 1) + 1]]

\* the while loop, from an active order and a keep list to the final keep list
RECURSIVE NmsLoop(_, _, _, _)
NmsLoop(boxes, ord, kp, u) ==
    IF ord = <<>> THEN kp
    ELSE NmsLoop(boxes, NmsRetain(boxes, ord, u), Append(kp, ord[1]), u)

(***************************************************************************)
(* _nms_boxes on its own: a group of boxes and a threshold                 *)
(***************************************************************************)
\* boxes of whole-pixel coordinates
GroupBoxes ==
    {<<x * Den, 0, s * Den, s * Den>> : x \in {0, 2, 5}, s \in {2, 4}}
GroupConfs == {8, 14}
NmsThresholds == {<<1, 10>>, <<1, 2>>, <<7, 10>>}

InitNms ==
    /\ npc = "sort"
    /\ nms_threshold \in NmsThresholds
    /\ \E n \in 1..MaxBoxes :
          /\ nboxes \in [1..n -> GroupBoxes]
          /\ nconf \in [1..n -> GroupConfs]
    /\ ordered = <<>>
    /\ keep = <<>>
    /\ pc = "idle"
    /\ entry = "none"
    /\ image = <<0, 0>>
    /\ object_threshold = <<0, 1>>
    /\ outputs = <<>>
    /\ resolution_raw = <<0, 0>>
    /\ outputs_reshaped = <<>>
    /\ feats = <<>>
    /\ filtered = <<>>
    /\ cand_norm = <<>>
    /\ cand = <<>>
    /\ class_iter = <<>>
    /\ nms_out = <<>>
    /\ result = <<>>
    /\ err = ""

\* lines 429-437
NmsSort ==
    /\ npc = "sort"
    /\ ordered' \in DescOrders(nconf)
    /\ keep' = <<>>
    /\ npc' = "loop"
    /\ UNCHANGED <<nboxes, nconf, nms_threshold>>
    /\ UNCHANGED pipeVars

\* lines 438-463, one iteration
NmsIterate ==
    /\ npc = "loop"
    /\ ordered # <<>>
    /\ keep' = Append(keep, ordered[1])
    /\ ordered' = NmsRetain(nboxes, ordered, nms_threshold)
    /\ UNCHANGED <<npc, nboxes, nconf, nms_threshold>>
    /\ UNCHANGED pipeVars

\* lines 465-466
NmsReturn ==
    /\ npc = "loop"
    /\ ordered = <<>>
    /\ npc' = "returned"
    /\ UNCHANGED <<nboxes, nconf, ordered, keep, nms_threshold>>
    /\ UNCHANGED pipeVars

NextNms == NmsSort \/ NmsIterate \/ NmsReturn

SpecNms == InitNms /\ [][NextNms]_vars

(***************************************************************************)
(* PostprocessYOLO._reshape_output                                         *)
(***************************************************************************)
Size(shape) == shape[1] * shape[2] * shape[3] * shape[4]

\* np.reshape(output, (height, width, 3, 85)) accepts exactly the tensors of
\* that many elements
CanReshape(t) == Size(t.shape) = t.shape[3] * t.shape[4] * Dim3 * Dim4

\* np.transpose(output, [0, 2, 3, 1]) read in row-major order, then taken as
\* (height, width, 3, 85)
ReshapeOutput(t) ==
    LET n == t.shape[1]
        c == t.shape[2]
        h == t.shape[3]
        w == t.shape[4]
    IN  [h |-> h, w |-> w,
         data |-> [f \in 1..Size(t.shape) |->
                     LET f0 == f - 1
                         cc == f0 % c
                         xx == (f0 \div c) % w
                         yy == (f0 \div (c * w)) % h
                         nn == f0 \div (c * w * h)
                     IN  t.data[((nn * c + cc) * h + yy) * w + xx + 1]]]

(***************************************************************************)
(* PostprocessYOLO._process_feats                                          *)
(***************************************************************************)
\* the decoded fields of one scale, one element per (row, col, anchor) in
\* row-major order; boxes are <<x, y, w, h>> over Den, box_confidence and
\* box_class_probs are over SigmoidDen
ProcessFeats(r, mask) ==
    LET grid_h == r.h
        grid_w == r.w
        E == 1..(grid_h * grid_w * Dim3)
        raw(e, k) == r.data[(e - 1) * Dim4 + k]
        row(e) == (e - 1) \div (grid_w * Dim3)
        col(e) == ((e - 1) \div Dim3) % grid_w
        anchor(e) == Anchors[mask[((e - 1) % Dim3) + 1] + 1]
        box_w(e) == (Sigmoid(raw(e, 3)) * anchor(e)[1] * Den)
                        \div (SigmoidDen * InputResolution[1])
        box_h(e) == (Sigmoid(raw(e, 4)) * anchor(e)[2] * Den)
                        \div (SigmoidDen * InputResolution[2])
        box_x(e) == ((Sigmoid(raw(e, 1)) + SigmoidDen * col(e)) * Den)
                        \div (SigmoidDen * grid_w) - (box_w(e) \div 2)
        box_y(e) == ((Sigmoid(raw(e, 2)) + SigmoidDen * row(e)) * Den)
                        \div (SigmoidDen * grid_h) - (box_h(e) \div 2)
    IN  [boxes |-> [e \in E |-> <<box_x(e), box_y(e), box_w(e), box_h(e)>>],
         box_confidence |-> [e \in E |-> Sigmoid(raw(e, 5))],
         box_class_probs |-> [e \in E |->
                               [k \in 1..CategoryNum |-> Sigmoid(raw(e, 5 + k))]]]

(***************************************************************************)
(* PostprocessYOLO._filter_boxes                                           *)
(***************************************************************************)
\* np.max(box_scores, axis=-1)
MaxOf(s) == CHOOSE v \in Range(s) : \A j \in DOMAIN s : s[j] <= v

\* np.argmax(box_scores, axis=-1): the first index of the maximum, 0-based
ArgMax(s) ==
    (CHOOSE k \in DOMAIN s :
        /\ \A j \in DOMAIN s : s[j] <= s[k]
        /\ \A j \in DOMAIN s : j < k => s[j] < s[k]) - 1

FilterBoxesStrict(f, t) ==
    LET E == DOMAIN f.boxes
        box_scores(e) == [k \in 1..CategoryNum |->
                             f.box_confidence[e] * f.box_class_probs[e][k]]
        pos == SortedSeq({e \in E : MaxOf(box_scores(e)) * t[2] > t[1] * ScoreDen})
    IN  [pos |-> pos,
         boxes |-> [m \in 1..Len(pos) |-> f.boxes[pos[m]]],
         classes |-> [m \in 1..Len(pos) |-> ArgMax(box_scores(pos[m]))],
         scores |-> [m \in 1..Len(pos) |-> MaxOf(box_scores(pos[m]))]]

\* scores are over ScoreDen; pos is np.where(box_class_scores >= threshold)
FilterBoxes(f, t) ==
    LET E == DOMAIN f.boxes
        box_scores(e) == [k \in 1..CategoryNum |->
                             f.box_confidence[e] * f.box_class_probs[e][k]]
        pos == SortedSeq({e \in E : MaxOf(box_scores(e)) * t[2] >= t[1] * ScoreDen})
    IN  [pos |-> pos,
         boxes |-> [m \in 1..Len(pos) |-> f.boxes[pos[m]]],
         classes |-> [m \in 1..Len(pos) |-> ArgMax(box_scores(pos[m]))],
         scores |-> [m \in 1..Len(pos) |-> MaxOf(box_scores(pos[m]))]]

(***************************************************************************)
(* Inputs of the pipeline                                                  *)
(***************************************************************************)
\* img_raw.shape[:2]
ImageShapes == {<<8, 8>>, <<6, 8>>}
ObjThresholds == {<<3, 4>>}

OneHot(k, hi, lo) == [c \in 1..CategoryNum |-> IF c = k THEN hi ELSE lo]

\* the raw values <<tx, ty, tw, th, to, classes...>> of a cell/anchor:
\* nothing there; the first class at the anchor's full size with score 1;
\* the last class at half the anchor's size with score 3/4; every class tied
\* at half size with score 1; the last class with score 1/2
Background == <<-2, -2, -2, -2, -2>> \o OneHot(1, -2, -2)
ObjectEntries ==
    { <<0, 0, 2, 2, 2>> \o OneHot(1, 2, -2),
      <<0, 0, 0, 0, 1>> \o OneHot(CategoryNum, 2, -2),
      <<0, 0, 0, 0, 2>> \o OneHot(1, 2, 2),
      <<0, 0, 2, 2, 0>> \o OneHot(CategoryNum, 2, 0) }

Positions ==
    {<<s, e>> : s \in 1..3, e \in 1..(GridSizes[1] * GridSizes[1] * Dim3)}

\* which cell/anchor entries carry an object
Layouts ==
    UNION {[S -> ObjectEntries] :
              S \in {T \in SUBSET Positions : Cardinality(T) <= MaxObjects}}

EntryAt(L, p) == IF p \in DOMAIN L THEN L[p] ELSE Background

\* the tensor of scale s in NCHW order
MkTensor(L, s) ==
    LET g == GridSizes[s]
        c == Dim3 * Dim4
    IN  [shape |-> <<1, c, g, g>>,
         data |-> [i \in 1..(c * g * g) |->
                     LET i0 == i - 1
                         ch == i0 \div (g * g)
                         y  == (i0 \div g) % g
                         x  == i0 % g
                         a  == ch \div Dim4
                         k  == ch % Dim4
                     IN  EntryAt(L, <<s, (y * g + x) * Dim3 + a + 1>>)[k + 1]]]

\* well-formed and malformed tensor lists
TensorLists(L) ==
    LET T1 == MkTensor(L, 1)
        T2 == MkTensor(L, 2)
        T3 == MkTensor(L, 3)
        g3 == GridSizes[3]
        fewChannels == [shape |-> <<1, 2 * Dim4, g3, g3>>,
                        data |-> SubSeq(T3.data, 1, 2 * Dim4 * g3 * g3)]
        batched == [shape |-> <<Dim3, Dim4, GridSizes[1], GridSizes[1]>>,
                    data |-> T1.data]
    IN  { <<T1, T2, T3>>, <<T1, T2>>, <<T1, T2, T3, T3>>, <<>>,
          <<T1, T2, fewChannels>>, <<batched, T2, T3>> }

WellFormed(ts) ==
    /\ Len(ts) = Len(Masks)
    /\ \A i \in DOMAIN ts : ts[i].shape[1] = 1 /\ ts[i].shape[2] = Dim3 * Dim4

NoneVal == [isNone |-> TRUE, arr |-> <<>>]
Arr(s) == [isNone |-> FALSE, arr |-> s]

Init ==
    /\ pc = "start"
    /\ entry = "none"
    /\ image \in ImageShapes
    /\ object_threshold \in ObjThresholds
    /\ \E L \in Layouts : outputs \in TensorLists(L)
    /\ resolution_raw = <<0, 0>>
    /\ outputs_reshaped = <<>>
    /\ feats = <<>>
    /\ filtered = <<>>
    /\ cand_norm = <<>>
    /\ cand = <<>>
    /\ class_iter = <<>>
    /\ nms_out = <<>>
    /\ result = [boxes |-> NoneVal, categories |-> NoneVal,
                 confidences |-> NoneVal, idx |-> <<>>]
    /\ err = ""
    /\ npc = "idle"
    /\ nms_threshold = DefaultNmsThreshold
    /\ nboxes = <<>>
    /\ nconf = <<>>
    /\ ordered = <<>>
    /\ keep = <<>>

(***************************************************************************)
(* DarknetTRT.__call__                                                     *)
(***************************************************************************)
\* lines 64-88: the engine's flat outputs are reshaped to output_shapes (zip
\* stops at the shorter list) and handed to process with image.shape[:2]
Call ==
    /\ pc = "start"
    /\ entry' = "call"
    /\ LET n == Min2(Len(outputs), Len(OutputShapes))
       IN  IF \A i \in 1..n : Len(outputs[i].data) = Size(OutputShapes[i])
           THEN /\ outputs' = [i \in 1..n |->
                                 [shape |-> OutputShapes[i], data |-> outputs[i].data]]
                /\ resolution_raw' = <<image[1], image[2]>>
                /\ pc' = "reshape"
                /\ err' = ""
           ELSE /\ pc' = "error"
                /\ err' = "ValueError"
                /\ UNCHANGED <<outputs, resolution_raw>>
    /\ UNCHANGED <<image, object_threshold, outputs_reshaped, feats, filtered,
                   cand_norm, cand, class_iter, nms_out, result>>
    /\ UNCHANGED <<nmsVars, nms_threshold>>

\* a caller of process that passes the resolution in WH order, as the
\* docstring of process asks
ProcessDirect ==
    /\ pc = "start"
    /\ entry' = "process"
    /\ resolution_raw' = <<image[2], image[1]>>
    /\ pc' = "reshape"
    /\ UNCHANGED <<image, object_threshold, outputs, outputs_reshaped, feats,
                   filtered, cand_norm, cand, class_iter, nms_out, result, err>>
    /\ UNCHANGED <<nmsVars, nms_threshold>>

(***************************************************************************)
(* PostprocessYOLO.process and _process_yolo_output                        *)
(***************************************************************************)
\* lines 275-277
ReshapeOutputs ==
    /\ pc = "reshape"
    /\ IF \A i \in DOMAIN outputs : CanReshape(outputs[i])
       THEN /\ outputs_reshaped' = [i \in DOMAIN outputs |-> ReshapeOutput(outputs[i])]
            /\ pc' = "decode"
            /\ err' = ""
       ELSE /\ pc' = "error"
            /\ err' = "ValueError"
            /\ UNCHANGED outputs_reshaped
    /\ UNCHANGED <<entry, image, object_threshold, outputs, resolution_raw, feats,
                   filtered, cand_norm, cand, class_iter, nms_out, result>>
    /\ UNCHANGED <<nmsVars, nms_threshold>>

\* the number of (output, mask) pairs of zip(outputs_reshaped, self.masks)
ZipLen == Min2(Len(outputs_reshaped), Len(Masks))

\* lines 315-320, one iteration
ProcessScale ==
    /\ pc = "decode"
    /\ Len(filtered) < ZipLen
    /\ LET s == Len(filtered) + 1
           f == ProcessFeats(outputs_reshaped[s], Masks[s])
       IN  /\ feats' = Append(feats, f)
           /\ filtered' = Append(filtered, FilterBoxes(f, object_threshold))
    /\ UNCHANGED <<pc, entry, image, object_threshold, outputs, resolution_raw,
                   outputs_reshaped, cand_norm, cand, class_iter, nms_out,
                   result, err>>
    /\ UNCHANGED <<nmsVars, nms_threshold>>

\* lines 327-329: width, height = resolution_raw; boxes * [width, height, width, height]
Rescale(b, res) == <<b[1] * res[1], b[2] * res[2], b[3] * res[1], b[4] * res[2]>>

\* the iteration order of set(categories): a CPython set of small integers
\* is walked in slot order, which for labels below the table size of 8 is
\* ascending order
SetIter(S) == SortedSeq(S)

\* lines 322-334: np.concatenate (which rejects an empty list), the
\* rescaling, and the start of the loop over the classes
Aggregate ==
    /\ pc = "decode"
    /\ Len(filtered) = ZipLen
    /\ IF filtered = <<>>
       THEN /\ pc' = "error"
            /\ err' = "ValueError"
            /\ UNCHANGED <<cand_norm, cand, class_iter>>
       ELSE LET boxes == Concat([s \in DOMAIN filtered |-> filtered[s].boxes])
                categories == Concat([s \in DOMAIN filtered |-> filtered[s].classes])
                confidences == Concat([s \in DOMAIN filtered |-> filtered[s].scores])
            IN  /\ cand_norm' = boxes
                /\ cand' = [i \in DOMAIN boxes |->
                              [box |-> Rescale(boxes[i], resolution_raw),
                               cls |-> categories[i],
                               conf |-> confidences[i]]]
                /\ class_iter' = SetIter(Range(categories))
                /\ pc' = "nms"
                /\ err' = ""
    /\ UNCHANGED <<entry, image, object_threshold, outputs, resolution_raw,
                   outputs_reshaped, feats, filtered, nms_out, result>>
    /\ UNCHANGED <<nmsVars, nms_threshold>>

GroupIdxsAll(category) == SortedSeq(DOMAIN cand)

\* np.where(categories == category)
GroupIdxs(category) == SortedSeq({i \in DOMAIN cand : cand[i].cls = category})

\* lines 334-344, one iteration; idx records where each survivor stood in
\* the aggregated candidate list
NmsClass ==
    /\ pc = "nms"
    /\ class_iter # <<>>
    /\ LET idxs == GroupIdxs(class_iter[1])
           box == [m \in DOMAIN idxs |-> cand[idxs[m]].box]
           category == [m \in DOMAIN idxs |-> cand[idxs[m]].cls]
           confidence == [m \in DOMAIN idxs |-> cand[idxs[m]].conf]
       IN  \E ord \in DescOrders(confidence) :
              LET kp == NmsLoop(box, ord, <<>>, nms_threshold)
              IN  nms_out' = Append(nms_out,
                      [boxes |-> [m \in DOMAIN kp |-> box[kp[m]]],
                       categories |-> [m \in DOMAIN kp |-> category[kp[m]]],
                       scores |-> [m \in DOMAIN kp |-> confidence[kp[m]]],
                       idx |-> [m \in DOMAIN kp |-> idxs[kp[m]]]])
    /\ class_iter' = Tail(class_iter)
    /\ UNCHANGED <<pc, entry, image, object_threshold, outputs, resolution_raw,
                   outputs_reshaped, feats, filtered, cand_norm, cand, result, err>>
    /\ UNCHANGED <<nmsVars, nms_threshold>>

AssembleNoGuard ==
    /\ pc = "nms"
    /\ class_iter = <<>>
    /\ IF nms_out = <<>>
       THEN /\ pc' = "error"
            /\ err' = "ValueError"
            /\ UNCHANGED result
       ELSE /\ result' =
               [boxes |-> Arr(Concat([c \in DOMAIN nms_out |-> nms_out[c].boxes])),
                categories |-> Arr(Concat([c \in DOMAIN nms_out |-> nms_out[c].categories])),
                confidences |-> Arr(Concat([c \in DOMAIN nms_out |-> nms_out[c].scores])),
                idx |-> Concat([c \in DOMAIN nms_out |-> nms_out[c].idx])]
            /\ pc' = "done"
            /\ err' = ""
    /\ UNCHANGED <<entry, image, object_threshold, outputs, resolution_raw,
                   outputs_reshaped, feats, filtered, cand_norm, cand, class_iter,
                   nms_out>>
    /\ UNCHANGED <<nmsVars, nms_threshold>>

\* lines 346-353
Assemble ==
    /\ pc = "nms"
    /\ class_iter = <<>>
    /\ IF nms_out = <<>>
       THEN result' = [boxes |-> NoneVal, categories |-> NoneVal,
                       confidences |-> NoneVal, idx |-> <<>>]
       ELSE result' =
               [boxes |-> Arr(Concat([c \in DOMAIN nms_out |-> nms_out[c].boxes])),
                categories |-> Arr(Concat([c \in DOMAIN nms_out |-> nms_out[c].categories])),
                confidences |-> Arr(Concat([c \in DOMAIN nms_out |-> nms_out[c].scores])),
                idx |-> Concat([c \in DOMAIN nms_out |-> nms_out[c].idx])]
    /\ pc' = "done"
    /\ err' = ""
    /\ UNCHANGED <<entry, image, object_threshold, outputs, resolution_raw,
                   outputs_reshaped, feats, filtered, cand_norm, cand, class_iter,
                   nms_out>>
    /\ UNCHANGED <<nmsVars, nms_threshold>>

Next ==
    \/ Call
    \/ ProcessDirect
    \/ ReshapeOutputs
    \/ ProcessScale
    \/ Aggregate
    \/ NmsClass
    \/ Assemble

Spec == Init /\ [][Next]_vars

(***************************************************************************)
(* Properties of _nms_boxes (checked under SpecNms)                        *)
(***************************************************************************)
KeptPairs == {<<a, b>> \in (1..Len(keep)) \X (1..Len(keep)) : a # b}

\* C1: any two distinct boxes that _nms_boxes keeps have an overlap ratio,
\* as the NMS step computes it, of at most the nms threshold.
C1_KeptPairsWithinThreshold ==
    npc \in {"loop", "returned"} =>
        \A pr \in KeptPairs :
            IouLeq(nboxes[keep[pr[1]]], nboxes[keep[pr[2]]], nms_threshold)

\* a group of which NMS kept two boxes and suppressed a third
C1_Witness ==
    /\ npc = "returned"
    /\ Len(keep) >= 2
    /\ Len(keep) < Len(nboxes)

\* the candidate of the larger confidence among two
Stronger == IF nconf[1] > nconf[2] THEN 1 ELSE 2

\* C2: of two candidates with identical boxes (any positive width and
\* height) and different confidences, at nms threshold 0.5, only the one of
\* higher confidence is kept.
C2_IdenticalBoxesKeepStronger ==
    (/\ npc = "returned"
     /\ Len(nboxes) = 2
     /\ nboxes[1] = nboxes[2]
     /\ nconf[1] # nconf[2]
     /\ nms_threshold = <<1, 2>>)
    => keep = <<Stronger>>

\* the rectangles share no area
Disjoint(bi, bj) ==
    \/ bi[1] + bi[3] <= bj[1]
    \/ bj[1] + bj[3] <= bi[1]
    \/ bi[2] + bi[4] <= bj[2]
    \/ bj[2] + bj[4] <= bi[2]

\* the rectangles lie at least one pixel apart along x or along y
ApartByOnePixel(bi, bj) ==
    \/ bi[1] + bi[3] + Den <= bj[1]
    \/ bj[1] + bj[3] + Den <= bi[1]
    \/ bi[2] + bi[4] + Den <= bj[2]
    \/ bj[2] + bj[4] + Den <= bi[2]

\* C3 as stated: two candidates whose rectangles share no area are both
\* kept, whatever their confidences and the threshold.
C3_DisjointBothKept ==
    (/\ npc = "returned"
     /\ Len(nboxes) = 2
     /\ Disjoint(nboxes[1], nboxes[2]))
    => Range(keep) = {1, 2}

\* C3 amended: two candidates of positive width and height whose rectangles
\* lie at least one pixel apart along x or y (so that the inclusive +1
\* intersection is zero) are both kept, whatever their confidences and the
\* threshold.
C3_ApartBothKept ==
    (/\ npc = "returned"
     /\ Len(nboxes) = 2
     /\ \A i \in 1..2 : nboxes[i][3] > 0 /\ nboxes[i][4] > 0
     /\ ApartByOnePixel(nboxes[1], nboxes[2]))
    => Range(keep) = {1, 2}

\* two boxes exactly one pixel apart, both kept at the smallest threshold
C3_Witness ==
    /\ npc = "returned"
    /\ Len(nboxes) = 2
    /\ nboxes[1][1] + nboxes[1][3] + Den = nboxes[2][1]
    /\ nms_threshold = <<1, 10>>
    /\ Len(keep) = 2

\* C7: the confidences of the kept candidates are non-increasing along the
\* keep list, ties included.
C7_KeepOrderNonIncreasing ==
    npc \in {"loop", "returned"} =>
        \A a, b \in 1..Len(keep) :
            a < b => nconf[keep[a]] >= nconf[keep[b]]

\* a keep list with a tie and a strict descent
C7_Witness ==
    /\ npc = "returned"
    /\ Len(keep) = 3
    /\ nconf[keep[1]] = nconf[keep[2]]
    /\ nconf[keep[2]] > nconf[keep[3]]

\* the largest confidence of the group
TopConf == CHOOSE v \in Range(nconf) : \A i \in DOMAIN nconf : nconf[i] <= v

\* what holds of the loop of _nms_boxes at every point: the keep list (one
\* entry per iteration done) and the active order together never hold more
\* than the N candidates, no index stands twice in them, and the first
\* index kept has the largest confidence
LoopAccounts ==
    npc \in {"loop", "returned"} =>
        /\ Len(keep) + Len(ordered) <= Len(nboxes)
        /\ Range(keep) \cup Range(ordered) \subseteq DOMAIN nboxes
        /\ Range(keep) \cap Range(ordered) = {}
        /\ \A a, b \in DOMAIN keep : a # b => keep[a] # keep[b]
        /\ \A a, b \in DOMAIN ordered : a # b => ordered[a] # ordered[b]
        /\ (keep # <<>> \/ npc = "returned") =>
              /\ keep # <<>>
              /\ nconf[keep[1]] = TopConf
        /\ npc = "returned" => ordered = <<>>

\* what every step of the loop does: an iteration appends the head of the
\* active order to the keep list and leaves a strictly shorter active order
\* without that head, made of indices that were active before; with the
\* active order empty the call returns
LoopShrinks ==
    npc = "loop" =>
        IF ordered # <<>>
        THEN /\ keep' = Append(keep, ordered[1])
             /\ Len(ordered') < Len(ordered)
             /\ Range(ordered') \subseteq Range(ordered) \ {ordered[1]}
             /\ npc' = "loop"
        ELSE /\ npc' = "returned"
             /\ keep' = keep

\* C11: the greedy loop of _nms_boxes ends after at most N iterations for a
\* group of N candidates: each iteration removes at least the head from the
\* active order and appends it to the keep list, every index is accounted
\* for at most once, in the keep list or in the active order, the keep list
\* has no duplicates, and a candidate of the highest confidence is kept.
C11_LoopTerminatesWithinN == []LoopAccounts /\ [][LoopShrinks]_vars

\* a group of three of which the loop kept two in two iterations and
\* discarded the third
C11_Witness ==
    /\ npc = "returned"
    /\ Len(nboxes) = 3
    /\ Len(keep) = 2
    /\ ordered = <<>>
    /\ nconf[keep[1]] > nconf[keep[2]]

(***************************************************************************)
(* Properties of process and __call__ (checked under Spec)                 *)
(***************************************************************************)
AllNone ==
    /\ result.boxes.isNone
    /\ result.categories.isNone
    /\ result.confidences.isNone

\* C4: process returns either three index-aligned arrays of one length
\* N >= 1 or the empty result in all three positions at once; with no
\* candidate left by the filter it returns the empty result and raises
\* nothing (an exception is only ever raised before the first scale is
\* decoded).
C4_ResultAlignedOrEmpty ==
    /\ pc = "done" =>
          \/ AllNone
          \/ /\ ~result.boxes.isNone
             /\ ~result.categories.isNone
             /\ ~result.confidences.isNone
             /\ Len(result.boxes.arr) >= 1
             /\ Len(result.categories.arr) = Len(result.boxes.arr)
             /\ Len(result.confidences.arr) = Len(result.boxes.arr)
             /\ Len(result.idx) = Len(result.boxes.arr)
             /\ \A i \in DOMAIN result.idx :
                   /\ result.idx[i] \in DOMAIN cand
                   /\ result.boxes.arr[i] = cand[result.idx[i]].box
                   /\ result.categories.arr[i] = cand[result.idx[i]].cls
                   /\ result.confidences.arr[i] = cand[result.idx[i]].conf
    /\ (pc = "done" /\ cand = <<>>) => AllNone
    /\ pc = "error" => filtered = <<>>

\* every scale decoded, an entry of positive score among them, no candidate
\* left, and the empty result returned
C4_Witness ==
    /\ pc = "done"
    /\ Len(filtered) = Len(Masks)
    /\ \E s \in DOMAIN feats : \E e \in DOMAIN feats[s].boxes :
          feats[s].box_confidence[e] > 0
    /\ cand = <<>>
    /\ AllNone

\* C5: with a number of tensors other than the number of masks, or a tensor
\* whose channel count is not 3*(5+C), process fails before any scale is
\* decoded and returns nothing (whatever the name of the error raised).
C5_MalformedRejected ==
    (pc # "start" /\ ~WellFormed(outputs)) =>
        /\ feats = <<>>
        /\ pc # "done"

\* objectness times category probability of entry e of decoded fields f
Score(f, e, k) == f.box_confidence[e] * f.box_class_probs[e][k]

Passes(v, t) == v * t[2] >= t[1] * ScoreDen

\* C6: _filter_boxes outputs exactly the entries whose largest
\* objectness-times-probability score is at least the threshold, each once,
\* with that score as confidence and a class index that attains it.
C6_FilterExact ==
    \A s \in DOMAIN filtered :
        LET f == feats[s]
            r == filtered[s]
        IN  /\ \A e \in DOMAIN f.boxes :
                  (\E m \in DOMAIN r.pos : r.pos[m] = e)
                     <=> (\E k \in 1..CategoryNum :
                             Passes(Score(f, e, k), object_threshold))
            /\ \A m, n \in DOMAIN r.pos : m < n => r.pos[m] < r.pos[n]
            /\ \A m \in DOMAIN r.pos :
                  /\ r.boxes[m] = f.boxes[r.pos[m]]
                  /\ r.classes[m] \in 0..(CategoryNum - 1)
                  /\ r.scores[m] = Score(f, r.pos[m], r.classes[m] + 1)
                  /\ \A k \in 1..CategoryNum : Score(f, r.pos[m], k) <= r.scores[m]
                  /\ Passes(r.scores[m], object_threshold)

\* a scale where an entry exactly at the threshold is output and an entry of
\* positive score below it is not
C6_Witness ==
    \E s \in DOMAIN filtered :
        /\ \E m \in DOMAIN filtered[s].pos :
              filtered[s].scores[m] * object_threshold[2]
                 = object_threshold[1] * ScoreDen
        /\ \E e \in DOMAIN feats[s].boxes :
              /\ feats[s].box_confidence[e] > 0
              /\ e \notin Range(filtered[s].pos)

\* where class c first stands in the aggregated candidate list
FirstOccurrence(c) ==
    CHOOSE i \in DOMAIN cand :
        /\ cand[i].cls = c
        /\ \A j \in DOMAIN cand : cand[j].cls = c => i <= j

Returned == pc = "done" /\ ~AllNone

SetPosition(c) ==
    LET order == SetIter({cand[i].cls : i \in DOMAIN cand})
    IN  CHOOSE k \in DOMAIN order : order[k] = c

C9_NoCrossClassSuppression ==
    pc = "done" =>
        /\ \A i \in DOMAIN cand :
              i \notin Range(result.idx) =>
                 \E k \in Range(result.idx) :
                    /\ k # i
                    /\ cand[k].cls = cand[i].cls
                    /\ ~IouLeq(cand[k].box, cand[i].box, nms_threshold)
        /\ (Len(cand) = 2 /\ cand[1].cls # cand[2].cls)
              => Range(result.idx) = {1, 2}

\* two candidates of identical geometry, large enough to suppress one
\* another within a class, of different classes, both returned
C9_Witness ==
    /\ pc = "done"
    /\ Len(cand) = 2
    /\ cand[1].box = cand[2].box
    /\ ~IouLeq(cand[1].box, cand[2].box, nms_threshold)
    /\ cand[1].cls # cand[2].cls
    /\ Range(result.idx) = {1, 2}

\* C10: through __call__, x and width of every candidate are multiplied by
\* the width of the image and y and height by its height, before NMS
\* (stated for the well-formed tensor lists).
C10_CallRescalesByWidthHeight ==
    (entry = "call" /\ WellFormed(outputs) /\ pc \in {"nms", "done"}) =>
        \A i \in DOMAIN cand :
            cand[i].box = << cand_norm[i][1] * image[2], cand_norm[i][2] * image[1],
                             cand_norm[i][3] * image[2], cand_norm[i][4] * image[1] >>

====
